---- MODULE Spec2Model ----
(***************************************************************************)
(* A model of deepdiff/search.py: the DeepSearch engine.                   *)
(*                                                                         *)
(* The object graph is a heap of containers (identity = heap index) whose  *)
(* children are scalars or references.  The recursion of __search and its  *)
(* visitors is an explicit call stack: one frame per __search activation,  *)
(* turned in place into the frame of the visitor it dispatches to.         *)
(* Paths and str() results are sequences of one-character strings, so that *)
(* "%s[%s]" formatting and the substring test `str(item) in new_parent`    *)
(* are computed, not assumed.                                              *)
(***************************************************************************)
EXTENDS Integers, Sequences, FiniteSets, TLC

VARIABLES
    heap,           \* the object graph: container id -> [kind, keys, vals]
    obj,            \* self.obj: the root value
    item,           \* self.item
    exclude_paths,  \* self.exclude_paths
    exclude_types,  \* self.exclude_types / exclude_types_tuple
    verbose_level,  \* self.verbose_level
    self,           \* the DeepSearch dict itself: report key -> bucket
    stack,          \* the active __search activations, innermost last
    phase,          \* "searching" | "done" | "raised"
    inst_warning_num, \* the instance attribute warning_num (-1: not set)
    emitted,        \* logger.warning calls made by this process so far
    runs,           \* DeepSearch instances constructed by this process so far
    callLog         \* the parent paths __search was called with, in call order

vars == <<heap, obj, item, exclude_paths, exclude_types, verbose_level,
          self, stack, phase, inst_warning_num, emitted, runs, callLog>>

(***************************************************************************)
(* Bounds of the model.                                                    *)
(***************************************************************************)
\* verbose_level ranges over 0..MaxVerbose
MaxVerbose == 3
\* the interpreter's recursion limit, counted in __search activations
RecursionLimit == 7
\* DeepSearch instances one process constructs (process-lifetime specification)
MaxRuns == 4

(***************************************************************************)
(* Program constants.                                                      *)
(***************************************************************************)
\* search.py:94  warning_num = 0 (the class attribute)
ClassWarningNum == 0
\* search.py:249  if self.warning_num < 10
WarningCap == 10

(***************************************************************************)
(* Values.  A scalar carries its value; a reference names a heap object.   *)
(***************************************************************************)
IntV(n) == [t |-> "int", n |-> n, s |-> <<>>]
StrV(s) == [t |-> "str", n |-> 0, s |-> s]
NoneV == [t |-> "NoneType", n |-> 0, s |-> <<>>]
Ref(i) == [t |-> "ref", n |-> i, s |-> <<>>]

IsRef(v) == v.t = "ref"

\* type(v): the runtime type of a value
TypeOf(v) == IF IsRef(v) THEN heap[v.n].kind ELSE v.t

\* strings = (str, bytes); numbers = (int, float, ...)
IsStrings(v) == TypeOf(v) = "str"
IsNumbers(v) == TypeOf(v) = "int"
IsMutableMapping(v) == TypeOf(v) = "dict"
IsTuple(v) == TypeOf(v) \in {"tuple", "namedtuple"}
IsSet(v) == TypeOf(v) = "set"
IsIterable(v) == TypeOf(v) \in {"list", "tuple", "namedtuple", "set", "dict", "str"}

\* isinstance(v, T) for one type T: a namedtuple is a tuple
IsInstance(v, T) == TypeOf(v) = T \/ (TypeOf(v) = "namedtuple" /\ T = "tuple")

(***************************************************************************)
(* Text: str(), repr() and the path formats.                               *)
(***************************************************************************)
DigitChar(d) == CASE d = 0 -> "0" [] d = 1 -> "1" [] d = 2 -> "2" [] d = 3 -> "3"
                  [] d = 4 -> "4" [] d = 5 -> "5" [] d = 6 -> "6" [] d = 7 -> "7"
                  [] d = 8 -> "8" [] OTHER -> "9"

RECURSIVE StrOfInt(_)
StrOfInt(n) == IF n < 0 THEN <<"-">> \o StrOfInt(0 - n)
               ELSE IF n < 10 THEN <<DigitChar(n)>>
               ELSE StrOfInt(n \div 10) \o <<DigitChar(n % 10)>>

RECURSIVE Join(_, _)
Join(parts, sep) == IF Len(parts) = 0 THEN <<>>
                    ELSE IF Len(parts) = 1 THEN parts[1]
                    ELSE parts[1] \o sep \o Join(Tail(parts), sep)

\* repr(v); `active` holds the containers whose repr is in progress
\* (Py_ReprEnter prints "[...]" for a container met again inside itself)
RECURSIVE Repr(_, _)
Repr(v, active) ==
    IF ~IsRef(v) THEN
        CASE v.t = "int" -> StrOfInt(v.n)
          [] v.t = "str" -> <<"'">> \o v.s \o <<"'">>
          [] OTHER -> <<"N", "o", "n", "e">>
    ELSE
        LET o == heap[v.n]
            again == v.n \in active
            kids == [i \in 1..Len(o.vals) |-> Repr(o.vals[i], active \cup {v.n})]
            fields == [i \in 1..Len(o.vals) |->
                          o.keys[i].s \o <<"=">> \o Repr(o.vals[i], active \cup {v.n})]
            pairs == [i \in 1..Len(o.vals) |->
                          Repr(o.keys[i], active \cup {v.n}) \o <<":", " ">>
                            \o Repr(o.vals[i], active \cup {v.n})]
            comma == <<",", " ">>
        IN CASE o.kind = "list" ->
                  IF again THEN <<"[", ".", ".", ".", "]">>
                  ELSE <<"[">> \o Join(kids, comma) \o <<"]">>
             [] o.kind = "tuple" ->
                  IF again THEN <<"(", ".", ".", ".", ")">>
                  ELSE IF Len(o.vals) = 1 THEN <<"(">> \o kids[1] \o <<",", ")">>
                  ELSE <<"(">> \o Join(kids, comma) \o <<")">>
             [] o.kind = "namedtuple" ->
                  IF again THEN <<"N", "T", "(", ".", ".", ".", ")">>
                  ELSE <<"N", "T", "(">> \o Join(fields, comma) \o <<")">>
             [] o.kind = "dict" ->
                  IF again THEN <<"{", ".", ".", ".", "}">>
                  ELSE <<"{">> \o Join(pairs, comma) \o <<"}">>
             [] o.kind = "set" ->
                  IF Len(o.vals) = 0 THEN <<"s", "e", "t", "(", ")">>
                  ELSE <<"{">> \o Join(kids, comma) \o <<"}">>
             \* object.__repr__: "<... object at 0x...>"
             [] OTHER -> <<"<", "O", ">">>

\* str(item): a string is itself, anything else its repr
StrOf(v) == IF v.t = "str" THEN v.s ELSE Repr(v, {})

\* needle in hay, for two texts
Contains(hay, needle) ==
    \E k \in 0..(Len(hay) - Len(needle)) : SubSeq(hay, k + 1, k + Len(needle)) = needle

RootPath == <<"r", "o", "o", "t">>

\* "%s[%s]" % (parent, key_text)
BracketPath(parent, key_text) == parent \o <<"[">> \o key_text \o <<"]">>
\* "%s.%s" % (parent, key_text)
AttributePath(parent, key_text) == parent \o <<".">> \o key_text

\* item_key_str of __search_dict: a string key is quoted outside attribute mode
ItemKeyStr(key, print_as_attribute) ==
    IF ~print_as_attribute /\ key.t = "str" THEN <<"'">> \o key.s \o <<"'">>
    ELSE StrOf(key)

\* new_parent of __search_dict
DictChildPath(parent, key, print_as_attribute) ==
    IF print_as_attribute THEN AttributePath(parent, ItemKeyStr(key, TRUE))
    ELSE BracketPath(parent, ItemKeyStr(key, FALSE))

\* new_parent of __search_iterable, for the 0-based position i
IterChildPath(parent, i) == BracketPath(parent, StrOfInt(i))

(***************************************************************************)
(* Equality and identity.                                                  *)
(***************************************************************************)
\* a == b: "T", "F", or "E" when the comparison recurses without end
\* (RecursionError).  `active` holds the pairs whose comparison is in progress.
\* Containers compare element by element; each element pair is first compared
\* by identity, then by ==; the first pair that is not equal decides.
RECURSIVE PyEq(_, _, _)
RECURSIVE SeqEq(_, _, _, _)
RECURSIVE DictEq(_, _, _, _)

SeqEq(xs, ys, k, active) ==
    IF k > Len(xs) THEN "T"
    ELSE LET r == IF xs[k] = ys[k] THEN "T" ELSE PyEq(xs[k], ys[k], active)
         IN IF r = "T" THEN SeqEq(xs, ys, k + 1, active) ELSE r

DictEq(a, b, k, active) ==
    IF k > Len(a.keys) THEN "T"
    ELSE LET js == {j \in 1..Len(b.keys) : b.keys[j] = a.keys[k]}
         IN IF js = {} THEN "F"
            ELSE LET j == CHOOSE j \in js : TRUE
                     r == IF a.vals[k] = b.vals[j] THEN "T"
                          ELSE PyEq(a.vals[k], b.vals[j], active)
                 IN IF r = "T" THEN DictEq(a, b, k + 1, active) ELSE r

PyEq(a, b, active) ==
    IF ~IsRef(a) \/ ~IsRef(b) THEN (IF a = b THEN "T" ELSE "F")
    ELSE IF a.n = b.n THEN "T"
    ELSE IF <<a.n, b.n>> \in active THEN "E"
    ELSE LET x == heap[a.n]
             y == heap[b.n]
             now == active \cup {<<a.n, b.n>>}
             tuples == {"tuple", "namedtuple"}
         IN CASE (x.kind = "list" /\ y.kind = "list")
                   \/ (x.kind \in tuples /\ y.kind \in tuples) ->
                     IF Len(x.vals) # Len(y.vals) THEN "F"
                     ELSE SeqEq(x.vals, y.vals, 1, now)
              [] x.kind = "dict" /\ y.kind = "dict" ->
                     IF Len(x.keys) # Len(y.keys) THEN "F" ELSE DictEq(x, y, 1, now)
              [] x.kind = "set" /\ y.kind = "set" ->
                     IF {x.vals[k] : k \in 1..Len(x.vals)} = {y.vals[k] : k \in 1..Len(y.vals)}
                     THEN "T" ELSE "F"
              \* object.__eq__ is identity
              [] OTHER -> "F"

\* A character outside Latin-1 (standing for one such as U+20AC).  CPython keeps
\* one shared object per one-character Latin-1 string, and builds a new object
\* each time a string yields a character outside Latin-1.
WideChars == {"W"}

\* id(x) for the k-th element x produced by enumerate(f.obj) at call depth d.
\* Objects held by the graph keep one identity (the value stands for it).
ItemId(x, f, d) ==
    IF IsStrings(f.obj) /\ Len(x.s) = 1 /\ x.s[1] \in WideChars
    THEN [t |-> "str", n |-> d, s |-> x.s]
    ELSE x

\* line 178 / 201: parents_ids and item_id in parents_ids
InParentsIds(parents_ids, item_id) == parents_ids # {} /\ item_id \in parents_ids

\* __add_to_frozen_set
AddToFrozenSet(parents_ids, item_id) == parents_ids \cup {item_id}

\* the defect of adding to the caller's own set instead of to a copy
CallerParentsIdsLeak(parents_ids, parents_ids_added) == parents_ids_added
\* What the caller's own parents_ids is after __add_to_frozen_set built the
\* callee's: set(parents_ids) is a copy, the caller's frozenset is untouched.
CallerParentsIds(parents_ids, parents_ids_added) == parents_ids

\* __skip_this(item, parent)
SkipThis(x, parent) ==
    \/ parent \in exclude_paths
    \/ \E T \in exclude_types : IsInstance(x, T)

(***************************************************************************)
(* The result dict.                                                        *)
(***************************************************************************)
ReportKeys == {"matched_paths", "matched_values"}

\* __set_or_dict: {} or set()
SetOrDict(level) == [shape |-> IF level >= 2 THEN "dict" ELSE "set", entries |-> {}]

\* self.update(matched_paths=..., matched_values=..., unprocessed=[])
EmptyResult(level) == [k \in ReportKeys \cup {"unprocessed"} |->
                          IF k = "unprocessed" THEN [shape |-> "list", entries |-> <<>>]
                          ELSE SetOrDict(level)]

\* self[report_key][key] = value
DictPut(bucket, key, value) ==
    [bucket EXCEPT !.entries = {e \in @ : e.path # key} \cup {[path |-> key, value |-> value]}]
\* self[report_key].add(key)
SetAdd(bucket, key) == [bucket EXCEPT !.entries = @ \cup {[path |-> key]}]

\* the defect of reporting the path alone whatever the verbosity
ReportPathOnly(d, report_key, key, value) == [d EXCEPT ![report_key] = SetAdd(@, key)]
\* __report
Report(d, report_key, key, value) ==
    IF verbose_level >= 2 THEN [d EXCEPT ![report_key] = DictPut(@, key, value)]
    ELSE [d EXCEPT ![report_key] = SetAdd(@, key)]

\* self['unprocessed'].append("%s" % parent)
AppendUnprocessed(d, parent) ==
    [d EXCEPT !["unprocessed"].entries = Append(@, parent)]

\* `not v` for a bucket
IsEmptyBucket(b) == IF b.shape = "list" THEN b.entries = <<>> ELSE b.entries = {}

\* the defect of deleting nothing
KeepAllKeys(d) == d
\* lines 113-116: the keys whose value is empty are deleted
DeleteEmptyKeys(d) ==
    LET keep == {k \in DOMAIN d : ~IsEmptyBucket(d[k])}
    IN [k \in keep |-> d[k]]

\* the paths a bucket holds
BucketPaths(b) == IF b.shape = "list" THEN {b.entries[k] : k \in 1..Len(b.entries)}
                  ELSE {e.path : e \in b.entries}
\* the paths of report key k (none when the key is absent)
PathsOf(k) == IF k \in DOMAIN self THEN BucketPaths(self[k]) ELSE {}
AllResultPaths == PathsOf("matched_paths") \cup PathsOf("matched_values")
                    \cup PathsOf("unprocessed")

(***************************************************************************)
(* The inputs the constructor is given: object graphs, search items and    *)
(* configurations.                                                         *)
(***************************************************************************)
PyList(vals) == [kind |-> "list", keys |-> <<>>, vals |-> vals]
PyTuple(vals) == [kind |-> "tuple", keys |-> <<>>, vals |-> vals]
\* a set, its elements in iteration order
PySet(vals) == [kind |-> "set", keys |-> <<>>, vals |-> vals]
PyDict(keys, vals) == [kind |-> "dict", keys |-> keys, vals |-> vals]
\* a namedtuple: field names and values
PyNamedTuple(keys, vals) == [kind |-> "namedtuple", keys |-> keys, vals |-> vals]
\* an instance with a __dict__
PyObject(keys, vals) == [kind |-> "object", keys |-> keys, vals |-> vals]
\* an instance of a class with __slots__ (no __dict__)
PySlots(keys, vals) == [kind |-> "slots", keys |-> keys, vals |-> vals]

One == IntV(1)
StrAB == StrV(<<"a", "b">>)
KeyA == StrV(<<"a">>)
KeyB == StrV(<<"b">>)
Key0 == IntV(0)

Leaves == {One, StrAB, NoneV}

Graph(root, h) == [root |-> root, heap |-> h]

\* flat containers of every kind
FlatGraphs ==
    {Graph(Ref(1), <<PyList(<<x, y>>)>>) : x \in Leaves, y \in Leaves}
    \cup {Graph(Ref(1), <<PyDict(<<KeyA, Key0>>, <<x, One>>)>>) : x \in Leaves}
    \cup {Graph(Ref(1), <<PyTuple(<<x, Ref(2)>>), PyNamedTuple(<<KeyA>>, <<x>>)>>) : x \in Leaves}
    \cup {Graph(Ref(1), <<PySlots(<<KeyA>>, <<x>>)>>) : x \in Leaves}
    \cup {Graph(Ref(1), <<PyObject(<<KeyA, KeyB>>, <<x, Ref(2)>>), PyList(<<x>>)>>) : x \in Leaves}
    \* a mapping holding a list, and a list equal to it outside the graph
    \cup {Graph(Ref(1), <<PyDict(<<KeyA>>, <<Ref(2)>>), PyList(<<x>>), PyList(<<x>>)>>) : x \in Leaves}
    \cup {Graph(Ref(1), <<PyList(<<Ref(2), One>>), PyDict(<<KeyA>>, <<x>>)>>) : x \in Leaves}

\* direct and indirect self-reference
CyclicGraphs ==
    {Graph(Ref(1), <<PyList(<<x, Ref(1)>>)>>) : x \in Leaves}
    \cup {Graph(Ref(1), <<PyDict(<<KeyA, KeyB>>, <<Ref(1), x>>)>>) : x \in Leaves}
    \cup {Graph(Ref(1), <<PyObject(<<KeyA, KeyB>>, <<Ref(1), x>>)>>) : x \in Leaves}
    \cup {Graph(Ref(1), <<PyList(<<Ref(2)>>), PyDict(<<KeyA, KeyB>>, <<Ref(1), x>>)>>) : x \in Leaves}
    \cup {Graph(Ref(1), <<PyObject(<<KeyA>>, <<Ref(2)>>), PyTuple(<<Ref(1), x>>)>>) : x \in Leaves}
    \* two distinct lists, each holding itself
    \cup {Graph(Ref(1), <<PyList(<<Ref(1)>>), PyList(<<Ref(2)>>)>>)}

\* one container referenced from two places of an acyclic graph
SharedGraphs ==
    {Graph(Ref(1), <<PyList(<<Ref(2), Ref(2)>>), PyList(<<x>>)>>) : x \in Leaves}
    \cup {Graph(Ref(1), <<PyDict(<<KeyA, KeyB>>, <<Ref(2), Ref(2)>>), PyDict(<<KeyA>>, <<x>>)>>) : x \in Leaves}
    \cup {Graph(Ref(1), <<PyList(<<Ref(3), Ref(2)>>), PyList(<<Ref(3)>>), PyList(<<x>>)>>) : x \in Leaves}
    \cup {Graph(Ref(1), <<PyList(<<Ref(2), Ref(2)>>), PySet(<<x>>)>>) : x \in Leaves}
    \cup {Graph(Ref(1), <<PyList(<<Ref(2), Ref(2)>>), PyList(<<Ref(3), Ref(3)>>), PySet(<<One>>)>>)}

\* scalar roots, and a string made of a character outside Latin-1
ScalarGraphs ==
    {Graph(x, <<>>) : x \in Leaves}
    \cup {Graph(Ref(1), <<PyList(<<StrV(<<"W">>)>>)>>)}

Graphs == FlatGraphs \cup CyclicGraphs \cup SharedGraphs \cup ScalarGraphs

\* search items: scalars, and any object of the heap
ItemsFor(g) == {One, Key0, KeyA, NoneV} \cup {Ref(i) : i \in DOMAIN g.heap}

ExcludePathsChoices ==
    {{}, {IterChildPath(RootPath, 0)}, {DictChildPath(RootPath, KeyA, FALSE)},
     {IterChildPath(IterChildPath(RootPath, 1), 0)}}
ExcludeTypesChoices == {{}, {"int"}, {"list"}, {"str"}}
VerboseLevels == 0..MaxVerbose

\* the inputs of the process-lifetime specification: graphs that hold sets
ProcessGraphs ==
    {Graph(Ref(1), <<PyList(<<Ref(2), Ref(2)>>), PyList(<<Ref(3), Ref(3)>>), PySet(<<One>>)>>),
     Graph(Ref(1), <<PyList(<<Ref(2), One>>), PyDict(<<KeyA>>, <<StrAB>>)>>),
     Graph(Ref(1), <<PyTuple(<<NoneV, Ref(2)>>), PyNamedTuple(<<KeyA>>, <<One>>)>>),
     Graph(Ref(1), <<PyObject(<<KeyA>>, <<Ref(2)>>), PyTuple(<<Ref(1), StrAB>>)>>)}

ProcessItems == {One, KeyA, NoneV}
ProcessExcludeTypes == {{}, {"int"}}
ProcessLevels == {1, 2}

(***************************************************************************)
(* The call stack.                                                         *)
(***************************************************************************)
\* an activation of __search(obj, item, parent, parents_ids)
SearchFrame(o, parent, parents_ids) ==
    [fn |-> "search", obj |-> o, parent |-> parent, parents_ids |-> parents_ids,
     keys |-> <<>>, vals |-> <<>>, todo |-> {}, i |-> 0, attr |-> FALSE]

Top == stack[Len(stack)]
Pop(st) == SubSeq(st, 1, Len(st) - 1)
ReplaceTop(st, f) == [st EXCEPT ![Len(st)] = f]

\* DeepSearch.__init__, lines 96-111: the state when __search is first entered
Construct(g, it, paths, types, level) ==
    /\ heap' = g.heap
    /\ obj' = g.root
    /\ item' = it
    /\ exclude_paths' = paths
    /\ exclude_types' = types
    /\ verbose_level' = level
    /\ self' = EmptyResult(level)
    /\ stack' = <<SearchFrame(g.root, RootPath, {g.root})>>
    /\ phase' = "searching"
    /\ inst_warning_num' = -1
    /\ callLog' = <<RootPath>>

Init ==
    \E g \in Graphs :
      \E it \in ItemsFor(g), paths \in ExcludePathsChoices,
         types \in ExcludeTypesChoices, level \in VerboseLevels :
        /\ heap = g.heap
        /\ obj = g.root
        /\ item = it
        /\ exclude_paths = paths
        /\ exclude_types = types
        /\ verbose_level = level
        /\ self = EmptyResult(level)
        /\ stack = <<SearchFrame(g.root, RootPath, {g.root})>>
        /\ phase = "searching"
        /\ inst_warning_num = -1
        /\ emitted = 0
        /\ runs = 1
        /\ callLog = <<RootPath>>

(***************************************************************************)
(* __search: the dispatcher, lines 227-259.  The branches are tried in the *)
(* order of the if/elif chain; the first that applies is taken.            *)
(***************************************************************************)
Branch(f) ==
    CASE SkipThis(item, f.parent) -> "skip"
      [] IsStrings(f.obj) /\ IsStrings(item) -> "str"
      [] IsStrings(f.obj) /\ IsNumbers(item) -> "str_number"
      [] IsNumbers(f.obj) -> "numbers"
      [] IsMutableMapping(f.obj) -> "dict"
      [] IsTuple(f.obj) -> "tuple"
      [] IsSet(f.obj) -> "set"
      [] IsIterable(f.obj) -> "iterable"
      [] OTHER -> "obj"

Searching == phase = "searching" /\ stack # <<>>
AtSearch(branch) == Searching /\ Top.fn = "search" /\ Branch(Top) = branch

\* the frame of __search_iterable(obj, item, parent, parents_ids)
IterFrame(f) ==
    [f EXCEPT !.fn = "iter", !.i = 0,
              !.vals = IF IsRef(f.obj) THEN heap[f.obj.n].vals
                       ELSE [k \in 1..Len(f.obj.s) |-> StrV(<<f.obj.s[k]>>)]]

\* the frame of __search_dict(obj, item, parent, parents_ids, print_as_attribute)
DictFrame(f, keys, vals, print_as_attribute) ==
    [f EXCEPT !.fn = "dict", !.keys = keys, !.vals = vals,
              !.todo = 1..Len(keys), !.attr = print_as_attribute]

Untouched == UNCHANGED <<heap, obj, item, exclude_paths, exclude_types, verbose_level, runs>>

\* line 230-231: if self.__skip_this(item, parent): return
SearchSkip ==
    /\ AtSearch("skip")
    /\ stack' = Pop(stack)
    /\ UNCHANGED <<self, phase, inst_warning_num, emitted, callLog>>
    /\ Untouched

\* lines 233-234 and 206-209: __search_str
SearchStr ==
    /\ AtSearch("str")
    /\ self' = IF Contains(Top.obj.s, item.s)
               THEN Report(self, "matched_values", Top.parent, Top.obj) ELSE self
    /\ stack' = Pop(stack)
    /\ UNCHANGED <<phase, inst_warning_num, emitted, callLog>>
    /\ Untouched

\* lines 236-237: a string node and a number item: return
SearchStrNumber ==
    /\ AtSearch("str_number")
    /\ stack' = Pop(stack)
    /\ UNCHANGED <<self, phase, inst_warning_num, emitted, callLog>>
    /\ Untouched

\* lines 239-240 and 211-213: __search_numbers
SearchNumbers ==
    /\ AtSearch("numbers")
    /\ self' = IF PyEq(item, Top.obj, {}) = "T"
               THEN Report(self, "matched_values", Top.parent, Top.obj) ELSE self
    /\ stack' = Pop(stack)
    /\ UNCHANGED <<phase, inst_warning_num, emitted, callLog>>
    /\ Untouched

\* lines 242-243: a mapping goes to __search_dict, with bracket paths
SearchDict ==
    /\ AtSearch("dict")
    /\ stack' = ReplaceTop(stack, DictFrame(Top, heap[Top.obj.n].keys, heap[Top.obj.n].vals, FALSE))
    /\ UNCHANGED <<self, phase, inst_warning_num, emitted, callLog>>
    /\ Untouched

\* lines 245-246 and 215-225: __search_tuple.  A tuple with _asdict goes to
\* __search_obj(is_namedtuple=True), which hands obj._asdict() to __search_dict
\* with attribute paths; any other tuple goes to __search_iterable.
SearchTuple ==
    /\ AtSearch("tuple")
    /\ stack' = ReplaceTop(stack,
                   IF TypeOf(Top.obj) = "namedtuple"
                   THEN DictFrame(Top, heap[Top.obj.n].keys, heap[Top.obj.n].vals, TRUE)
                   ELSE IterFrame(Top))
    /\ UNCHANGED <<self, phase, inst_warning_num, emitted, callLog>>
    /\ Untouched

\* self.warning_num as read at line 249: the instance attribute when the
\* instance has one, else the class attribute
WarningNum == IF inst_warning_num = -1 THEN ClassWarningNum ELSE inst_warning_num

\* lines 248-253: a set: the advisory while self.warning_num < 10, and
\* `self.warning_num += 1`, which assigns the instance attribute; then
\* __search_iterable
SearchSet ==
    /\ AtSearch("set")
    /\ IF WarningNum < WarningCap
       THEN /\ emitted' = emitted + 1
            /\ inst_warning_num' = WarningNum + 1
       ELSE UNCHANGED <<emitted, inst_warning_num>>
    /\ stack' = ReplaceTop(stack, IterFrame(Top))
    /\ UNCHANGED <<self, phase, callLog>>
    /\ Untouched

\* lines 255-256: any other Iterable goes to __search_iterable
SearchIterable ==
    /\ AtSearch("iterable")
    /\ stack' = ReplaceTop(stack, IterFrame(Top))
    /\ UNCHANGED <<self, phase, inst_warning_num, emitted, callLog>>
    /\ Untouched

\* lines 258-259 and 133-147: __search_obj.  obj.__dict__, else the __slots__
\* values, go to __search_dict with attribute paths; an object with neither is
\* appended to unprocessed.
SearchObj ==
    /\ AtSearch("obj")
    /\ IF TypeOf(Top.obj) \in {"object", "slots"}
       THEN /\ stack' = ReplaceTop(stack,
                           DictFrame(Top, heap[Top.obj.n].keys, heap[Top.obj.n].vals, TRUE))
            /\ self' = self
       ELSE /\ self' = AppendUnprocessed(self, Top.parent)
            /\ stack' = Pop(stack)
    /\ UNCHANGED <<phase, inst_warning_num, emitted, callLog>>
    /\ Untouched

(***************************************************************************)
(* The visitors' loops.  A call of __search pushes a frame; at the         *)
(* recursion limit the call raises RecursionError instead, which nothing   *)
(* catches.                                                                *)
(***************************************************************************)
\* self.__search(child, item, parent=new_parent, parents_ids=added), called
\* from the top frame, which becomes `caller`
Call(caller, child, new_parent, added) ==
    IF Len(stack) >= RecursionLimit
    THEN /\ phase' = "raised"
         /\ stack' = ReplaceTop(stack, caller)
         /\ callLog' = callLog
    ELSE /\ phase' = phase
         /\ stack' = Append(ReplaceTop(stack, caller), SearchFrame(child, new_parent, added))
         /\ callLog' = Append(callLog, new_parent)

\* __search_dict, lines 168-188: one pass of the loop body, for a key the
\* loop has not taken yet (set(obj.keys()) fixes no order)
SearchDictStep ==
    /\ Searching /\ Top.fn = "dict"
    /\ \E k \in Top.todo :
         LET f == Top
             obj_child == f.vals[k]
             item_id == obj_child
             new_parent == DictChildPath(f.parent, f.keys[k], f.attr)
             added == AddToFrozenSet(f.parents_ids, item_id)
             rest == [f EXCEPT !.todo = @ \ {k}]
         IN IF InParentsIds(f.parents_ids, item_id)
            THEN /\ stack' = ReplaceTop(stack, rest)
                 /\ UNCHANGED <<self, phase, callLog>>
            ELSE /\ self' = IF Contains(new_parent, StrOf(item))
                            THEN Report(self, "matched_paths", new_parent, obj_child)
                            ELSE self
                 /\ Call([rest EXCEPT !.parents_ids = CallerParentsIds(@, added)],
                         obj_child, new_parent, added)
    /\ UNCHANGED <<inst_warning_num, emitted>>
    /\ Untouched

\* __search_iterable, lines 193-204: one pass of the loop body
SearchIterableStep ==
    /\ Searching /\ Top.fn = "iter" /\ Top.i < Len(Top.vals)
    /\ LET f == Top
           x == f.vals[f.i + 1]
           new_parent == IterChildPath(f.parent, f.i)
           eq == PyEq(x, item, {})
           item_id == ItemId(x, f, Len(stack))
           added == AddToFrozenSet(f.parents_ids, item_id)
           rest == [f EXCEPT !.i = @ + 1]
       IN IF SkipThis(x, new_parent)
          THEN /\ stack' = ReplaceTop(stack, rest)
               /\ UNCHANGED <<self, phase, callLog>>
          ELSE IF eq = "E"
          THEN /\ phase' = "raised"
               /\ UNCHANGED <<self, stack, callLog>>
          ELSE IF eq = "T"
          THEN /\ self' = Report(self, "matched_values", new_parent, x)
               /\ stack' = ReplaceTop(stack, rest)
               /\ UNCHANGED <<phase, callLog>>
          ELSE IF InParentsIds(f.parents_ids, item_id)
          THEN /\ stack' = ReplaceTop(stack, rest)
               /\ UNCHANGED <<self, phase, callLog>>
          ELSE /\ self' = self
               /\ Call([rest EXCEPT !.parents_ids = CallerParentsIds(@, added)],
                       x, new_parent, added)
    /\ UNCHANGED <<inst_warning_num, emitted>>
    /\ Untouched

\* a visitor's loop is over: it returns, and so does the __search that called it
Return ==
    /\ Searching
    /\ \/ Top.fn = "dict" /\ Top.todo = {}
       \/ Top.fn = "iter" /\ Top.i >= Len(Top.vals)
    /\ stack' = Pop(stack)
    /\ UNCHANGED <<self, phase, inst_warning_num, emitted, callLog>>
    /\ Untouched

\* __init__, lines 113-116, once the top-level __search has returned
Finish ==
    /\ phase = "searching" /\ stack = <<>>
    /\ self' = DeleteEmptyKeys(self)
    /\ phase' = "done"
    /\ UNCHANGED <<stack, inst_warning_num, emitted, callLog>>
    /\ Untouched

\* the process constructs another DeepSearch: a new instance (no instance
\* attribute warning_num yet), the same class and the same logger
NewSearch ==
    /\ phase \in {"done", "raised"}
    /\ runs < MaxRuns
    /\ \E g \in ProcessGraphs, it \in ProcessItems, types \in ProcessExcludeTypes,
          level \in ProcessLevels :
         Construct(g, it, {}, types, level)
    /\ runs' = runs + 1
    /\ UNCHANGED emitted

Next ==
    \/ SearchSkip \/ SearchStr \/ SearchStrNumber \/ SearchNumbers
    \/ SearchDict \/ SearchTuple \/ SearchSet \/ SearchIterable \/ SearchObj
    \/ SearchDictStep \/ SearchIterableStep \/ Return \/ Finish

Spec == Init /\ [][Next]_vars

\* one process, several DeepSearch instances one after the other
ProcessInit ==
    \E g \in ProcessGraphs, it \in ProcessItems, types \in ProcessExcludeTypes,
       level \in ProcessLevels :
        /\ heap = g.heap
        /\ obj = g.root
        /\ item = it
        /\ exclude_paths = {}
        /\ exclude_types = types
        /\ verbose_level = level
        /\ self = EmptyResult(level)
        /\ stack = <<SearchFrame(g.root, RootPath, {g.root})>>
        /\ phase = "searching"
        /\ inst_warning_num = -1
        /\ emitted = 0
        /\ runs = 1
        /\ callLog = <<RootPath>>

ProcessNext == Next \/ NewSearch

ProcessSpec == ProcessInit /\ [][ProcessNext]_vars

(***************************************************************************)
(* The object graph as such, walked without the engine: every node with    *)
(* its structural path.  The properties below are stated against it.       *)
(***************************************************************************)
\* the children of a value, each with the path the child has under `path`
ChildEdges(v, path) ==
    IF ~IsRef(v) THEN {}
    ELSE LET o == heap[v.n]
         IN {[path |-> IF o.kind \in {"list", "tuple", "set"}
                       THEN IterChildPath(path, k - 1)
                       ELSE DictChildPath(path, o.keys[k], o.kind # "dict"),
              val |-> o.vals[k],
              holder |-> o.kind,
              k |-> k] : k \in 1..Len(o.vals)}

TypeExcluded(v) == \E T \in exclude_types : IsInstance(v, T)

\* The nodes at and below v.  anc: the identities on the way from the root to
\* v, v included; a child that is one of them is a cyclic edge (cyc) and is
\* not walked further.  pex / tex: the node or one of its ancestors has its
\* path in exclude_paths / its type in exclude_types.
RECURSIVE Walk(_, _, _, _, _, _)
Walk(v, path, holder, anc, pex, tex) ==
    LET here_pex == pex \/ path \in exclude_paths
        here_tex == tex \/ TypeExcluded(v)
    IN {[path |-> path, val |-> v, holder |-> holder, cyc |-> FALSE,
         pex |-> here_pex, tex |-> here_tex]}
       \cup UNION {IF e.val \in anc
                   THEN {[path |-> e.path, val |-> e.val, holder |-> e.holder, cyc |-> TRUE,
                          pex |-> here_pex \/ e.path \in exclude_paths,
                          tex |-> here_tex \/ TypeExcluded(e.val)]}
                   ELSE Walk(e.val, e.path, e.holder, anc \cup {e.val}, here_pex, here_tex)
                   : e \in ChildEdges(v, path)}

GraphNodes == Walk(obj, RootPath, "root", {obj}, FALSE, FALSE)

\* the distinct container identities of the graph
ContainerCount == Cardinality({n.val : n \in {m \in GraphNodes : IsRef(m.val)}})

Acyclic == \A n \in GraphNodes : ~n.cyc

\* q is p or lies beneath p
IsPathPrefix(p, q) ==
    /\ Len(p) <= Len(q)
    /\ SubSeq(q, 1, Len(p)) = p
    /\ (Len(q) = Len(p) \/ q[Len(p) + 1] \in {"[", "."})

\* the node's value equals the item, or both are strings and it contains the item
ValueMatches(v) ==
    \/ PyEq(v, item, {}) = "T"
    \/ (IsStrings(v) /\ IsStrings(item) /\ Contains(v.s, item.s))

\* how often __search was called with parent path p
Calls(p) == Cardinality({k \in 1..Len(callLog) : callLog[k] = p})

(***************************************************************************)
(* The claims.                                                             *)
(***************************************************************************)

\* C1: completeness of value matches.  When the constructor returns, every
\* node that is reached along a path that is neither excluded (by path or by
\* type) nor cut by a cycle, and whose value equals the item (or contains it,
\* for two strings), has its path in matched_values: whatever holds the node,
\* and for the root as well.
C1_ValueMatchesComplete ==
    phase = "done" =>
      \A n \in GraphNodes :
        (~n.cyc /\ ~n.pex /\ ~n.tex /\ ValueMatches(n.val))
          => n.path \in PathsOf("matched_values")

\* C2: the search of any finite graph, cyclic ones included, does not raise,
\* and the recursion is never deeper than the number of distinct containers of
\* the graph plus one.
C2_TerminatesWithinDepth ==
    /\ phase # "raised"
    /\ Len(stack) <= ContainerCount + 1

\* C3: a cyclic edge is never reported: the path of a child that is one of its
\* own ancestors is in no bucket, whatever the search item.
C3_CyclicEdgeNeverReported ==
    \A n \in GraphNodes : n.cyc => n.path \notin AllResultPaths

\* C4: path exclusion: no bucket holds an excluded path or a path beneath one.
C4_ExcludedPathsAbsent ==
    \A p \in exclude_paths : \A q \in AllResultPaths : ~IsPathPrefix(p, q)

\* C5: type exclusion: no bucket holds the path of a node whose runtime type
\* is excluded, or of a descendant of such a node.
C5_ExcludedTypesAbsent ==
    \A n \in GraphNodes : n.tex => n.path \notin AllResultPaths

\* a container node that __search was called with and did not skip
Searched(n) == IsRef(n.val) /\ Calls(n.path) > 0 /\ ~SkipThis(item, n.path)

\* C6: ancestry is scoped per branch.  In an acyclic graph, when the
\* constructor returns: __search was called at most once with any path; under
\* every container that was searched, each child container was searched too
\* (once), unless the sequence visitor skipped it as excluded or reported it as
\* equal to the item - never because it was met elsewhere; and two paths to the
\* same container report the same value matches beneath them, exclusions apart.
C6_AncestryPerBranch ==
    (phase = "done" /\ Acyclic) =>
      /\ \A k \in 1..Len(callLog) : Calls(callLog[k]) = 1
      /\ \A n \in GraphNodes : Searched(n) =>
           \A e \in ChildEdges(n.val, n.path) : IsRef(e.val) =>
             \/ Calls(e.path) = 1
             \/ /\ e.holder \in {"list", "tuple", "set"}
                /\ (SkipThis(e.val, e.path) \/ PyEq(e.val, item, {}) = "T")
      /\ \A n1 \in GraphNodes, n2 \in GraphNodes :
           (n1.val = n2.val /\ Searched(n1) /\ Searched(n2)) =>
             \A e1 \in ChildEdges(n1.val, n1.path), e2 \in ChildEdges(n2.val, n2.path) :
               (e1.k = e2.k /\ e1.path \notin exclude_paths /\ e2.path \notin exclude_paths)
                 => (e1.path \in PathsOf("matched_values")
                       <=> e2.path \in PathsOf("matched_values"))

\* C6 witness: an acyclic graph in which one container was searched under two
\* different paths and a value match was reported beneath each of them
C6_Witness ==
    /\ phase = "done" /\ Acyclic
    /\ \E n1 \in GraphNodes, n2 \in GraphNodes :
         /\ n1.path # n2.path /\ n1.val = n2.val
         /\ Searched(n1) /\ Searched(n2)
         /\ \E e1 \in ChildEdges(n1.val, n1.path), e2 \in ChildEdges(n2.val, n2.path) :
              /\ e1.path \in PathsOf("matched_values")
              /\ e2.path \in PathsOf("matched_values")

\* C7: over the whole process, whatever the number of DeepSearch instances,
\* the advisory is emitted at most 10 times.
C7_AtMostTenWarnings == emitted <= WarningCap

\* C8: empty buckets are omitted.  When the constructor returns, the keys are
\* among matched_paths, matched_values and unprocessed, and none has an empty
\* value; the last step of the constructor keeps, unchanged, exactly the
\* buckets that hold an entry; and a bucket never loses an entry during the
\* traversal, so it holds one exactly when one was recorded into it.
C8_EmptyBucketsOmitted ==
    /\ [](phase = "done" =>
            /\ DOMAIN self \subseteq ReportKeys \cup {"unprocessed"}
            /\ \A k \in DOMAIN self : ~IsEmptyBucket(self[k]))
    /\ [][(phase = "searching" /\ phase' = "done") =>
            \A k \in ReportKeys \cup {"unprocessed"} :
              /\ k \in DOMAIN self' <=> ~IsEmptyBucket(self[k])
              /\ k \in DOMAIN self' => self'[k] = self[k]]_vars
    /\ [][(phase = "searching" /\ phase' = "searching") =>
            \A k \in ReportKeys \cup {"unprocessed"} :
              BucketPaths(self[k]) \subseteq BucketPaths(self'[k])]_vars

\* C8 witness: the constructor has returned with a match recorded in one
\* bucket and the two other keys deleted
C8_Witness ==
    /\ phase = "done"
    /\ DOMAIN self = {"matched_values"}
    /\ self["matched_values"].entries # {}

\* C9: the result shape follows verbosity, at every moment of the traversal
\* and after it.  Below level 2, matched_paths and matched_values are sets of
\* paths and hold no value; from level 2 on they are mappings (one entry per
\* path) from a path to the graph node at that path.
C9_ShapeFollowsVerbosity ==
    \A k \in ReportKeys \cap DOMAIN self :
      IF verbose_level < 2
      THEN /\ self[k].shape = "set"
           /\ \A e \in self[k].entries : DOMAIN e = {"path"}
      ELSE /\ self[k].shape = "dict"
           /\ \A e \in self[k].entries :
                /\ DOMAIN e = {"path", "value"}
                /\ \E n \in GraphNodes : n.path = e.path /\ n.val = e.value
                /\ \A e2 \in self[k].entries : e2.path = e.path => e2 = e

\* C9 witness: a search at verbosity 2 or more has returned with entries in
\* both matched_paths and matched_values
C9_Witness ==
    /\ phase = "done"
    /\ verbose_level >= 2
    /\ ReportKeys \subseteq DOMAIN self

\* C10: scalars have no children.  Whatever the type of the search item, a
\* string node or a number node is never handed to the sequence visitor or to
\* the mapping / generic-object visitor, and no result path extends the path
\* of a string or number node.
C10_ScalarsHaveNoChildren ==
    /\ \A k \in 1..Len(stack) :
         stack[k].fn \in {"iter", "dict"}
           => ~(IsStrings(stack[k].obj) \/ IsNumbers(stack[k].obj))
    /\ \A n \in GraphNodes : (IsStrings(n.val) \/ IsNumbers(n.val)) =>
         \A q \in AllResultPaths : IsPathPrefix(n.path, q) => q = n.path

====
